---- MODULE Spec2Model ----
(***************************************************************************)
(* Word codec, alignment helper, numeric normaliser and selector           *)
(* derivation of the ABI core (abi/src/util.rs, sol-macro expand/error.rs).*)
(*                                                                         *)
(* Unsigned integers of 32 bits and more (u32, usize, u64, u128, U256)     *)
(* are little-endian sequences of 16-bit limbs                             *)
(* without high zero limbs; the empty sequence is 0.  A value fits in w    *)
(* bits (w a multiple of 16) iff it has at most w/16 limbs.                *)
(***************************************************************************)
EXTENDS Integers, Sequences, FiniteSets, TLC

VARIABLES
    pc,      \* position of the caller: <component>_start / _ready / _done
    checks,  \* the build panics on integer overflow (TRUE) or wraps (FALSE)
    word,    \* the Word in hand
    origin,  \* <<v>> when the input in hand encodes the number v, else << >>
    call,    \* the function called last and its arguments
    ret      \* what that call returned: Ok, Err or Panic

vars == <<pc, checks, word, origin, call, ret>>

(* ------------------------------ bounds -------------------------------- *)

\* at most this many bytes of a word received from the wire are non-zero
\* outside the low four bytes
MaxNonZero == 1

\* declared lengths 0..MaxDeclaredLen are passed to check_fixed_bytes
MaxDeclaredLen == 34

\* round_up_nearest_multiple is given values within MaxValueOffset of 0, of
\* 2^32 and of usize::MAX, and padding units 0..MaxPadding
MaxValueOffset == 33

MaxPadding == 33

\* texts of at most MaxTextLen characters are handed to the normaliser
MaxTextLen == 3

\* numbers within MaxNumOffset of 0, 2^64, 2^128 and 2^256 are rendered as
\* decimal text, hex text and native integers
MaxNumOffset == 8

\* an error declaration has at most MaxParams parameters
MaxParams == 2

(* ------------------------- unsigned integers -------------------------- *)

LimbBits == 8 + 8

Base == 256 * 256

RECURSIVE Trim(_)
Trim(s) ==
    IF s = << >> THEN << >>
    ELSE IF s[Len(s)] = 0 THEN Trim(SubSeq(s, 1, Len(s) - 1))
    ELSE s

Limb(n, i) == IF i <= Len(n) THEN n[i] ELSE 0

FromNat(k) == Trim(<<k % Base, k \div Base>>)

Max2(a, b) == IF a >= b THEN a ELSE b

RECURSIVE AddCarry(_, _, _, _)
AddCarry(a, b, i, c) ==
    IF i > Max2(Len(a), Len(b)) THEN (IF c = 0 THEN << >> ELSE <<c>>)
    ELSE LET s == Limb(a, i) + Limb(b, i) + c
         IN  <<s % Base>> \o AddCarry(a, b, i + 1, s \div Base)

\* a + b, unbounded
AddBig(a, b) == Trim(AddCarry(a, b, 1, 0))

RECURSIVE MulCarry(_, _, _, _)
MulCarry(a, m, i, c) ==
    IF i > Len(a) THEN (IF c = 0 THEN << >> ELSE <<c>>)
    ELSE LET p == a[i] * m + c
         IN  <<p % Base>> \o MulCarry(a, m, i + 1, p \div Base)

\* a * m for a small factor 0 <= m < 2^15, unbounded
MulSmall(a, m) == Trim(MulCarry(a, m, 1, 0))

\* <<quotient limbs (little-endian), remainder>> of a / d, 0 < d < 2^15
RECURSIVE DivRem(_, _, _, _)
DivRem(a, d, i, r) ==
    IF i = 0 THEN << << >>, r >>
    ELSE LET cur  == r * Base + a[i]
             rest == DivRem(a, d, i - 1, cur % d)
         IN  << rest[1] \o <<cur \div d>>, rest[2] >>

DivSmall(a, d) == Trim(DivRem(a, d, Len(a), 0)[1])

ModSmall(a, d) == DivRem(a, d, Len(a), 0)[2]

\* a < b
RECURSIVE LessFrom(_, _, _)
LessFrom(a, b, i) ==
    IF i = 0 THEN FALSE
    ELSE IF a[i] # b[i] THEN a[i] < b[i]
    ELSE LessFrom(a, b, i - 1)

LessBig(a, b) ==
    IF Len(a) # Len(b) THEN Len(a) < Len(b) ELSE LessFrom(a, b, Len(a))

LeqBig(a, b) == a = b \/ LessBig(a, b)

RECURSIVE SubBorrow(_, _, _, _)
SubBorrow(a, b, i, br) ==
    IF i > Len(a) THEN << >>
    ELSE LET d == a[i] - Limb(b, i) - br
         IN  IF d < 0 THEN <<d + Base>> \o SubBorrow(a, b, i + 1, 1)
             ELSE <<d>> \o SubBorrow(a, b, i + 1, 0)

\* a - b for b <= a
SubBig(a, b) == Trim(SubBorrow(a, b, 1, 0))

\* the value fits an unsigned integer of the given width
Fits(n, bits) == Len(n) <= bits \div LimbBits

\* n mod 2^bits: what a wrapping operation of that width keeps
Wrap(n, bits) ==
    Trim(SubSeq(n, 1, IF Fits(n, bits) THEN Len(n) ELSE bits \div LimbBits))

\* the largest value of the width
RECURSIVE MaxOf(_)
MaxOf(bits) == IF bits = 0 THEN << >> ELSE <<Base - 1>> \o MaxOf(bits - LimbBits)

\* a - b in an unsigned type of the given width, two's complement on borrow
WrapSub(a, b, bits) ==
    IF LeqBig(b, a) THEN SubBig(a, b)
    ELSE SubBig(AddBig(AddBig(MaxOf(bits), <<1>>), a), b)

(* ------------------------------- Word --------------------------------- *)

WordLen == 32

\* Word::default()
ZeroWord == [i \in 0..(WordLen - 1) |-> 0]

\* &w[a..b] as a slice (1-indexed sequence)
Slice(w, a, b) == [i \in 1..(b - a) |-> w[a + i - 1]]

\* u32::to_be_bytes
to_be_bytes(value) ==
    << Limb(value, 2) \div 256, Limb(value, 2) % 256,
       Limb(value, 1) \div 256, Limb(value, 1) % 256 >>

\* mutants of pad_u32: little-endian byte order; left-aligned bytes
pad_u32_le(value) ==
    LET b == to_be_bytes(value)
    IN  [i \in 0..(WordLen - 1) |-> IF i >= 28 THEN b[32 - i] ELSE 0]

pad_u32_left(value) ==
    LET b == to_be_bytes(value)
    IN  [i \in 0..(WordLen - 1) |-> IF i < 4 THEN b[i + 1] ELSE 0]

\* pad_u32: the big-endian bytes of value are copied into bytes 28..32
pad_u32(value) ==
    LET b == to_be_bytes(value)
    IN  [i \in 0..(WordLen - 1) |-> IF i >= 28 THEN b[i - 27] ELSE 0]

check_zeroes(data) == \A i \in 1..Len(data) : data[i] = 0

\* x << k in u32: bits shifted past the width are dropped, k < 32
RECURSIVE ShlBig(_, _)
ShlBig(n, k) == IF k = 0 THEN n ELSE ShlBig(MulSmall(n, 2), k - 1)

Shl32(x, k) == [ovf |-> x.ovf, val |-> Wrap(ShlBig(x.val, k), 32)]

\* x + y in an unsigned type of the given width: with overflow checks the
\* build panics on overflow, without them the sum wraps
CheckedAdd(x, y, bits, chk) ==
    LET s == AddBig(x.val, y.val)
    IN  [ovf |-> x.ovf \/ y.ovf \/ (chk /\ ~Fits(s, bits)),
         val |-> Wrap(s, bits)]

\* x - y likewise: a borrow panics or wraps
CheckedSub(x, y, bits, chk) ==
    [ovf |-> x.ovf \/ y.ovf \/ (chk /\ LessBig(x.val, y.val)),
     val |-> WrapSub(x.val, y.val, bits)]

\* x * m likewise, for a small factor m
CheckedMul(x, m, bits, chk) ==
    LET p == MulSmall(x.val, m)
    IN  [ovf |-> x.ovf \/ (chk /\ ~Fits(p, bits)), val |-> Wrap(p, bits)]

Exact(n) == [ovf |-> FALSE, val |-> n]

\* b as u32
AsU32Cast(b) == [ovf |-> FALSE, val |-> FromNat(b)]

HexChars ==
    <<"0", "1", "2", "3", "4", "5", "6", "7",
      "8", "9", "a", "b", "c", "d", "e", "f">>

\* hex::encode
hex_encode(bytes) ==
    [i \in 1..(2 * Len(bytes)) |->
        LET b == bytes[(i + 1) \div 2]
        IN  IF i % 2 = 1 THEN HexChars[(b \div 16) + 1] ELSE HexChars[(b % 16) + 1]]

Ok(v) == [tag |-> "Ok", val |-> v]

Panic(m) == [tag |-> "Panic", msg |-> m]

NoRet == [tag |-> "None"]

\* Error::type_check_fail(data, expected)
type_check_fail(data, expected) ==
    [tag |-> "Err", kind |-> "TypeCheckFail", data |-> data, expected |-> expected]

\* mutants of check_fixed_bytes: the slice starts one byte late; a length
\* above 32 is reported as an invalid word instead of aborting
check_fixed_bytes_late(w, len) ==
    IF w = ZeroWord THEN Ok(TRUE)
    ELSE IF len = 0 THEN Panic("cannot have bytes0")
    ELSE IF len \in 1..31 THEN Ok(check_zeroes(Slice(w, len + 1, WordLen)))
    ELSE IF len = 32 THEN Ok(TRUE)
    ELSE Panic("cannot have bytes33 or higher")

check_fixed_bytes_soft(w, len) ==
    IF w = ZeroWord THEN Ok(TRUE)
    ELSE IF len = 0 THEN Panic("cannot have bytes0")
    ELSE IF len \in 1..31 THEN Ok(check_zeroes(Slice(w, len, WordLen)))
    ELSE IF len = 32 THEN Ok(TRUE)
    ELSE Ok(FALSE)

check_fixed_bytes(w, len) ==
    IF w = ZeroWord THEN Ok(TRUE)
    ELSE IF len = 0 THEN Panic("cannot have bytes0")
    ELSE IF len \in 1..31 THEN Ok(check_zeroes(Slice(w, len, WordLen)))
    ELSE IF len = 32 THEN Ok(TRUE)
    ELSE Panic("cannot have bytes33 or higher")

\* mutants of as_u32: the strict check stops one byte early; the second
\* byte is shifted as far as the first
as_u32_short(w, type_check, chk) ==
    IF type_check /\ ~check_zeroes(Slice(w, 0, 27))
    THEN type_check_fail(hex_encode(Slice(w, 0, WordLen)), "Solidity pointer (uint32)")
    ELSE LET r1 == CheckedAdd(Shl32(AsU32Cast(w[28]), 24),
                              Shl32(AsU32Cast(w[29]), 16), 32, chk)
             r2 == CheckedAdd(r1, Shl32(AsU32Cast(w[30]), 8), 32, chk)
             result == CheckedAdd(r2, AsU32Cast(w[31]), 32, chk)
         IN  IF result.ovf THEN Panic("attempt to add with overflow")
             ELSE Ok(result.val)

as_u32_shift(w, type_check, chk) ==
    IF type_check /\ ~check_zeroes(Slice(w, 0, 28))
    THEN type_check_fail(hex_encode(Slice(w, 0, WordLen)), "Solidity pointer (uint32)")
    ELSE LET r1 == CheckedAdd(Shl32(AsU32Cast(w[28]), 24),
                              Shl32(AsU32Cast(w[29]), 24), 32, chk)
             r2 == CheckedAdd(r1, Shl32(AsU32Cast(w[30]), 8), 32, chk)
             result == CheckedAdd(r2, AsU32Cast(w[31]), 32, chk)
         IN  IF result.ovf THEN Panic("attempt to add with overflow")
             ELSE Ok(result.val)

as_u32(w, type_check, chk) ==
    IF type_check /\ ~check_zeroes(Slice(w, 0, 28))
    THEN type_check_fail(hex_encode(Slice(w, 0, WordLen)), "Solidity pointer (uint32)")
    ELSE LET r1 == CheckedAdd(Shl32(AsU32Cast(w[28]), 24),
                              Shl32(AsU32Cast(w[29]), 16), 32, chk)
             r2 == CheckedAdd(r1, Shl32(AsU32Cast(w[30]), 8), 32, chk)
             result == CheckedAdd(r2, AsU32Cast(w[31]), 32, chk)
         IN  IF result.ovf THEN Panic("attempt to add with overflow")
             ELSE Ok(result.val)

check_bool(slice) == check_zeroes(Slice(slice, 0, 31))

(* --------------------------- word codec: inputs ----------------------- *)

ByteVals == {1, 255}

RECURSIVE SparseWords(_)
SparseWords(k) ==
    IF k = 0 THEN {ZeroWord}
    ELSE LET prev == SparseWords(k - 1)
         IN  prev \cup {[w EXCEPT ![p] = b] :
                            w \in prev, p \in 0..(WordLen - 1), b \in ByteVals}

U32Bytes == {0, 1, 128, 255}

\* the u32 with big-endian bytes b3 b2 b1 b0
U32Of(b3, b2, b1, b0) == Trim(<<b1 * 256 + b0, b3 * 256 + b2>>)

U32Inputs == {U32Of(b3, b2, b1, b0) : b3, b2, b1, b0 \in U32Bytes}

LowInputs == {U32Of(0, 0, 0, 0), U32Of(255, 255, 255, 255), U32Of(1, 2, 3, 4)}

\* a word off the wire: a sparse word whose free low bytes carry a pointer
WireWord(w, v) ==
    [i \in 0..(WordLen - 1) |-> IF i >= 28 /\ w[i] = 0 THEN pad_u32(v)[i] ELSE w[i]]

NoCall == [op |-> "none", type_check |-> FALSE, len |-> 0]

(* --------------------------- word codec: actions ---------------------- *)

\* A word is constructed fresh per encode/decode call and immutable once
\* produced: a run obtains one word, then applies one decoding routine to it.
InitWord ==
    /\ pc = "word_start"
    /\ checks \in BOOLEAN
    /\ word = ZeroWord
    /\ origin = << >>
    /\ call = NoCall
    /\ ret = NoRet

\* the encoder pads a pointer into a fresh word
PadU32 ==
    /\ pc = "word_start"
    /\ \E value \in U32Inputs :
          /\ word' = pad_u32(value)
          /\ origin' = <<value>>
    /\ pc' = "word_ready"
    /\ call' = [NoCall EXCEPT !.op = "pad_u32"]
    /\ UNCHANGED <<checks, ret>>

\* the decoder is handed a word of external data
Receive ==
    /\ pc = "word_start"
    /\ \E w \in SparseWords(MaxNonZero), v \in LowInputs : word' = WireWord(w, v)
    /\ pc' = "word_ready"
    /\ origin' = << >>
    /\ call' = [NoCall EXCEPT !.op = "recv"]
    /\ UNCHANGED <<checks, ret>>

AsU32 ==
    /\ pc = "word_ready"
    /\ \E type_check \in BOOLEAN :
          /\ call' = [NoCall EXCEPT !.op = "as_u32", !.type_check = type_check]
          /\ ret' = as_u32(word, type_check, checks)
    /\ pc' = "word_done"
    /\ UNCHANGED <<checks, word, origin>>

CheckFixedBytes ==
    /\ pc = "word_ready"
    /\ \E len \in 0..MaxDeclaredLen :
          /\ call' = [NoCall EXCEPT !.op = "check_fixed_bytes", !.len = len]
          /\ ret' = check_fixed_bytes(word, len)
    /\ pc' = "word_done"
    /\ UNCHANGED <<checks, word, origin>>

NextWord ==
    \/ PadU32
    \/ Receive
    \/ AsU32
    \/ CheckFixedBytes

SpecWord == InitWord /\ [][NextWord]_vars

(* --------------------------- word codec: claims ----------------------- *)

\* the big-endian value of bytes 28..32 of a word, read off limb by limb
LowValue(w) == U32Of(w[28], w[29], w[30], w[31])

HighZero(w) == \A i \in 0..27 : w[i] = 0

HexDigitValue(c) ==
    CASE c = "0" -> 0 [] c = "1" -> 1 [] c = "2" -> 2 [] c = "3" -> 3
      [] c = "4" -> 4 [] c = "5" -> 5 [] c = "6" -> 6 [] c = "7" -> 7
      [] c = "8" -> 8 [] c = "9" -> 9 [] c = "a" -> 10 [] c = "b" -> 11
      [] c = "c" -> 12 [] c = "d" -> 13 [] c = "e" -> 14 [] c = "f" -> 15
      [] OTHER -> -1

\* text is the lower-case hex encoding of the word w
IsHexOf(text, w) ==
    /\ Len(text) = 2 * WordLen
    /\ \A i \in 0..(WordLen - 1) :
          16 * HexDigitValue(text[2 * i + 1]) + HexDigitValue(text[2 * i + 2]) = w[i]

AsU32Done == pc = "word_done" /\ call.op = "as_u32"

FixedBytesDone == pc = "word_done" /\ call.op = "check_fixed_bytes"

\* C1: as_u32(pad_u32(v), strict=true) returns Ok(v) for every u32 v
C1_RoundTrip ==
    (AsU32Done /\ call.type_check /\ origin # << >>)
        => (ret.tag = "Ok" /\ ret.val = origin[1])

C1_Witness ==
    /\ AsU32Done /\ call.type_check /\ checks
    /\ origin = <<U32Of(255, 255, 255, 255)>>
    /\ ret.tag = "Ok"

\* C2: a word with a non-zero byte among its first 28 is rejected by the
\* strict mode with a TypeCheckError carrying the word's hex encoding and is
\* decoded by the lenient mode to the big-endian value of bytes 28..32; a
\* word whose first 28 bytes are zero is not rejected by the strict mode
C2_StrictLenient ==
    AsU32Done =>
        /\ (~HighZero(word) /\ call.type_check) =>
              /\ ret.tag = "Err"
              /\ ret.kind = "TypeCheckFail"
              /\ IsHexOf(ret.data, word)
        /\ (~HighZero(word) /\ ~call.type_check) =>
              /\ ret.tag = "Ok"
              /\ ret.val = LowValue(word)
        /\ (HighZero(word) /\ call.type_check) => ret.tag = "Ok"

C2_Witness ==
    /\ AsU32Done /\ call.type_check
    /\ word[27] = 255 /\ word[31] = 4
    /\ ret.tag = "Err"

\* C3: for declared_len in [1,32], check_fixed_bytes is true iff every byte
\* at index >= declared_len is zero
C3_FixedBytesIff ==
    (FixedBytesDone /\ call.len \in 1..32) =>
        /\ ret.tag = "Ok"
        /\ ret.val = (\A i \in call.len..(WordLen - 1) : word[i] = 0)

C3_Witness ==
    /\ FixedBytesDone /\ call.len = 5
    /\ word[4] = 255 /\ word[31] = 4
    /\ ret.tag = "Ok" /\ ret.val = FALSE

\* C4 as stated: a declared length of 0 or above 32 aborts for every word
C4_AlwaysFatal ==
    (FixedBytesDone /\ call.len \notin 1..32) => ret.tag = "Panic"

\* C4 amended: a declared length of 0 or above 32 aborts for every word that
\* is not all zero; for the all-zero word check_fixed_bytes returns true
C4_FatalUnlessZero ==
    (FixedBytesDone /\ call.len \notin 1..32) =>
        IF word = ZeroWord THEN ret.tag = "Ok" /\ ret.val = TRUE
        ELSE ret.tag = "Panic"

C4_Witness ==
    /\ FixedBytesDone /\ call.len = 33
    /\ word[0] = 1
    /\ ret.tag = "Panic"

\* C6: pad_u32(value) has 28 zero bytes followed by value in big-endian
\* order, most significant byte at index 28
C6_PadLayout ==
    (pc = "word_ready" /\ call.op = "pad_u32") =>
        /\ DOMAIN word = 0..(WordLen - 1)
        /\ \A i \in 0..27 : word[i] = 0
        /\ \A i \in 28..31 : word[i] \in 0..255
        /\ LowValue(word) = origin[1]
        /\ word[28] = Limb(origin[1], 2) \div 256

C6_Witness ==
    /\ pc = "word_ready" /\ call.op = "pad_u32"
    /\ origin = <<U32Of(1, 0, 128, 255)>>
    /\ word[28] = 1 /\ word[31] = 255

\* C10: a word the strict mode accepts is the canonical encoding of the value
\* extracted, the lenient mode extracts the same value, and the shift-and-add
\* extraction never overflows
C10_Canonical ==
    AsU32Done =>
        /\ ret.tag # "Panic"
        /\ (call.type_check /\ ret.tag = "Ok") =>
              /\ pad_u32(ret.val) = word
              /\ as_u32(word, FALSE, checks) = ret
        /\ ret.tag = "Ok" => (ret.val = LowValue(word) /\ Fits(ret.val, 32))

C10_Witness ==
    /\ AsU32Done /\ call.type_check /\ checks
    /\ origin = << >>
    /\ word[28] = 255 /\ word[29] = 255 /\ word[30] = 255 /\ word[31] = 255
    /\ ret.tag = "Ok"

(* ---------------------------- alignment helper ------------------------ *)

\* usize on the 64-bit targets the crate is built for
UsizeBits == 64

\* mutant of round_up_nearest_multiple: the "- 1" is missing
round_up_no_dec(value, padding, chk) ==
    LET sum == CheckedAdd(Exact(value), Exact(FromNat(padding)), UsizeBits, chk)
    IN  IF sum.ovf THEN Panic("attempt to add with overflow")
        ELSE IF padding = 0 THEN Panic("attempt to divide by zero")
        ELSE LET prod == CheckedMul(Exact(DivSmall(sum.val, padding)), padding,
                                    UsizeBits, chk)
             IN  IF prod.ovf THEN Panic("attempt to multiply with overflow")
                 ELSE Ok(prod.val)

\* (value + padding - 1) / padding * padding, evaluated left to right
round_up_nearest_multiple(value, padding, chk) ==
    LET sum == CheckedAdd(Exact(value), Exact(FromNat(padding)), UsizeBits, chk)
        dec == CheckedSub(sum, Exact(<<1>>), UsizeBits, chk)
    IN  IF sum.ovf THEN Panic("attempt to add with overflow")
        ELSE IF dec.ovf THEN Panic("attempt to subtract with overflow")
        ELSE IF padding = 0 THEN Panic("attempt to divide by zero")
        ELSE LET prod == CheckedMul(Exact(DivSmall(dec.val, padding)), padding,
                                    UsizeBits, chk)
             IN  IF prod.ovf THEN Panic("attempt to multiply with overflow")
                 ELSE Ok(prod.val)

UsizeMax == MaxOf(UsizeBits)

UsizeInputs ==
    {FromNat(k) : k \in 0..MaxValueOffset}
        \cup {<<k, 0, 1>> : k \in 0..MaxValueOffset}
        \cup {SubBig(UsizeMax, FromNat(k)) : k \in 0..MaxValueOffset}

InitAlign ==
    /\ pc = "align_start"
    /\ checks \in BOOLEAN
    /\ word = ZeroWord
    /\ origin = << >>
    /\ call = [op |-> "none"]
    /\ ret = NoRet

RoundUp ==
    /\ pc = "align_start"
    /\ \E value \in UsizeInputs, padding \in 0..MaxPadding :
          /\ call' = [op |-> "round_up_nearest_multiple",
                      value |-> value, padding |-> padding]
          /\ ret' = round_up_nearest_multiple(value, padding, checks)
    /\ pc' = "align_done"
    /\ UNCHANGED <<checks, word, origin>>

NextAlign == RoundUp

SpecAlign == InitAlign /\ [][NextAlign]_vars

\* r is the smallest multiple of unit that is >= value
IsRoundedUp(r, value, unit) ==
    /\ LeqBig(value, r)
    /\ ModSmall(r, unit) = 0
    /\ LessBig(SubBig(r, value), FromNat(unit))

\* the four worked examples with unit 32
RoundUpExamples ==
    (call.padding = 32) =>
        /\ call.value = FromNat(0) => ret.val = FromNat(0)
        /\ call.value = FromNat(1) => ret.val = FromNat(32)
        /\ call.value = FromNat(32) => ret.val = FromNat(32)
        /\ call.value = FromNat(33) => ret.val = FromNat(64)

\* C5 as stated: for every usize value and every unit > 0 the result is the
\* smallest multiple of unit that is >= value
C5_RoundUpAll ==
    (pc = "align_done" /\ call.padding > 0) =>
        /\ ret.tag = "Ok"
        /\ Fits(ret.val, UsizeBits)
        /\ IsRoundedUp(ret.val, call.value, call.padding)

\* C5 amended: the same, for every value and unit > 0 whose sum value + unit
\* does not exceed usize::MAX
C5_RoundUpInRange ==
    (/\ pc = "align_done"
     /\ call.padding > 0
     /\ LeqBig(AddBig(call.value, FromNat(call.padding)), UsizeMax)) =>
        /\ ret.tag = "Ok"
        /\ Fits(ret.val, UsizeBits)
        /\ IsRoundedUp(ret.val, call.value, call.padding)
        /\ RoundUpExamples

C5_Witness ==
    /\ pc = "align_done" /\ checks
    /\ call.padding = 32
    /\ call.value = SubBig(UsizeMax, FromNat(33))
    /\ ret.tag = "Ok"
    /\ ret.val = SubBig(UsizeMax, FromNat(31))

(* --------------------------- numeric normaliser ----------------------- *)

\* A string is a sequence of one-character strings.
DecDigits == <<"0", "1", "2", "3", "4", "5", "6", "7", "8", "9">>

LowerLetters ==
    <<"a", "b", "c", "d", "e", "f", "g", "h", "i", "j", "k", "l", "m",
      "n", "o", "p", "q", "r", "s", "t", "u", "v", "w", "x", "y", "z">>

UpperLetters ==
    <<"A", "B", "C", "D", "E", "F", "G", "H", "I", "J", "K", "L", "M",
      "N", "O", "P", "Q", "R", "S", "T", "U", "V", "W", "X", "Y", "Z">>

\* position of c in the table, 0 when absent
IndexIn(table, c) ==
    IF \E i \in 1..Len(table) : table[i] = c
    THEN CHOOSE i \in 1..Len(table) : table[i] = c
    ELSE 0

\* the enum StringifiedNumeric
StringOf(s) == [variant |-> "String", s |-> s]

U256Of(n) == [variant |-> "U256", n |-> n]

NumOf(n) == [variant |-> "Num", n |-> n]

ErrString(m) == [tag |-> "Err", kind |-> "String", msg |-> m]

\* result * radix + digit over the digits, failing once the width is exceeded
RECURSIVE Accumulate(_, _, _, _, _)
Accumulate(digits, i, radix, bits, acc) ==
    IF i > Len(digits) THEN Ok(acc)
    ELSE LET next == AddBig(MulSmall(acc, radix), FromNat(digits[i]))
         IN  IF ~Fits(next, bits) THEN ErrString("overflow")
             ELSE Accumulate(digits, i + 1, radix, bits, next)

\* str::parse::<u128>: an optional leading '+', then one or more decimal
\* digits; an unsigned type takes no '-'
parse_u128(s) ==
    IF s = << >> THEN ErrString("cannot parse integer from empty string")
    ELSE LET body == IF s[1] = "+" THEN Tail(s) ELSE s
         IN  IF body = << >> \/ \E i \in 1..Len(body) : IndexIn(DecDigits, body[i]) = 0
             THEN ErrString("invalid digit found in string")
             ELSE Accumulate([i \in 1..Len(body) |-> IndexIn(DecDigits, body[i]) - 1],
                             1, 10, 128, << >>)

\* the digit a character stands for in a radix of at most 36 (0-9, then the
\* letters in either case), -1 for any other character
DigitOf(c) ==
    IF IndexIn(DecDigits, c) > 0 THEN IndexIn(DecDigits, c) - 1
    ELSE IF IndexIn(LowerLetters, c) > 0 THEN IndexIn(LowerLetters, c) + 9
    ELSE IF IndexIn(UpperLetters, c) > 0 THEN IndexIn(UpperLetters, c) + 9
    ELSE -1

RECURSIVE DropUnderscores(_)
DropUnderscores(s) ==
    IF s = << >> THEN << >>
    ELSE IF Head(s) = "_" THEN DropUnderscores(Tail(s))
    ELSE <<Head(s)>> \o DropUnderscores(Tail(s))

\* U256::from_str_radix for a radix of at most 36: underscores are ignored,
\* every other character must be a digit below the radix, and the value must
\* fit 256 bits
from_str_radix(src, radix) ==
    LET body == DropUnderscores(src)
    IN  IF \E i \in 1..Len(body) : DigitOf(body[i]) < 0 \/ DigitOf(body[i]) >= radix
        THEN ErrString("invalid digit")
        ELSE Accumulate([i \in 1..Len(body) |-> DigitOf(body[i])], 1, radix, 256, << >>)

starts_with_0x(s) == Len(s) >= 2 /\ s[1] = "0" /\ s[2] = "x"

\* mutant of try_from: the 0x prefix is tested before the decimal fast path
\* and its remainder is parsed in base 10
try_from_hex_as_dec(value) ==
    IF value.variant = "U256" THEN Ok(value.n)
    ELSE IF value.variant = "Num" THEN Ok(value.n)
    ELSE IF starts_with_0x(value.s)
         THEN from_str_radix(SubSeq(value.s, 3, Len(value.s)), 10)
    ELSE IF parse_u128(value.s).tag = "Ok" THEN Ok(parse_u128(value.s).val)
    ELSE from_str_radix(value.s, 10)

\* impl TryFrom<StringifiedNumeric> for U256
try_from(value) ==
    IF value.variant = "U256" THEN Ok(value.n)
    ELSE IF value.variant = "Num" THEN Ok(value.n)
    ELSE IF parse_u128(value.s).tag = "Ok" THEN Ok(parse_u128(value.s).val)
    ELSE IF starts_with_0x(value.s)
         THEN from_str_radix(SubSeq(value.s, 3, Len(value.s)), 16)
    ELSE from_str_radix(value.s, 10)

(* ------------------------ numeric normaliser: inputs ------------------ *)

TextChars == {"0", "1", "9", "a", "F", "x", "e", "g", "+", "-", "_"}

RECURSIVE Texts(_)
Texts(k) ==
    IF k = 0 THEN {<< >>}
    ELSE LET prev == Texts(k - 1)
         IN  prev \cup {t \o <<c>> : t \in prev, c \in TextChars}

\* 2^bits
RECURSIVE Pow2(_)
Pow2(bits) == IF bits = 0 THEN <<1>> ELSE <<0>> \o Pow2(bits - LimbBits)

Around(n) ==
    {AddBig(n, FromNat(k)) : k \in 0..MaxNumOffset}
        \cup {SubBig(n, FromNat(k)) : k \in 1..MaxNumOffset}

\* numbers below 2^256 on both sides of the u64 and u128 limits
NumInputs ==
    {FromNat(k) : k \in 0..(2 * MaxNumOffset)}
        \cup {<<54321, 12345>>}
        \cup Around(Pow2(64))
        \cup Around(Pow2(128))
        \cup {SubBig(Pow2(256), FromNat(k)) : k \in 1..MaxNumOffset}

\* the digits of n in the radix, most significant first, lower case
RECURSIVE RadixDigits(_, _)
RadixDigits(n, radix) ==
    IF n = << >> THEN << >>
    ELSE RadixDigits(DivSmall(n, radix), radix)
            \o <<(DecDigits \o LowerLetters)[ModSmall(n, radix) + 1]>>

ToText(n, radix) == IF n = << >> THEN <<"0">> ELSE RadixDigits(n, radix)

\* the representations of the number n an external document can carry
Renderings(n) ==
    {StringOf(ToText(n, 10)), StringOf(<<"0", "x">> \o ToText(n, 16)), U256Of(n)}
        \cup (IF Fits(n, 64) THEN {NumOf(n)} ELSE {})

(* ------------------------ numeric normaliser: actions ----------------- *)

InitNum ==
    /\ pc = "num_start"
    /\ checks = TRUE
    /\ word = ZeroWord
    /\ origin = << >>
    /\ call = [op |-> "none"]
    /\ ret = NoRet

\* deserialisation yields a String variant holding arbitrary text
DeserializeText ==
    /\ pc = "num_start"
    /\ \E t \in Texts(MaxTextLen) :
          call' = [op |-> "deserialize", value |-> StringOf(t)]
    /\ pc' = "num_ready"
    /\ origin' = << >>
    /\ UNCHANGED <<checks, word, ret>>

\* deserialisation yields one representation of a number n
DeserializeNumber ==
    /\ pc = "num_start"
    /\ \E n \in NumInputs :
          /\ origin' = <<n>>
          /\ \E v \in Renderings(n) : call' = [op |-> "deserialize", value |-> v]
    /\ pc' = "num_ready"
    /\ UNCHANGED <<checks, word, ret>>

TryFrom ==
    /\ pc = "num_ready"
    /\ call' = [call EXCEPT !.op = "try_from"]
    /\ ret' = try_from(call.value)
    /\ pc' = "num_done"
    /\ UNCHANGED <<checks, word, origin>>

NextNum ==
    \/ DeserializeText
    \/ DeserializeNumber
    \/ TryFrom

SpecNum == InitNum /\ [][NextNum]_vars

(* ------------------------ numeric normaliser: claims ------------------ *)

IsDecDigit(c) == c \in {DecDigits[i] : i \in 1..Len(DecDigits)}

IsHexDigit(c) ==
    \/ IsDecDigit(c)
    \/ c \in {"a", "b", "c", "d", "e", "f", "A", "B", "C", "D", "E", "F"}

\* one or more decimal digits
IsDecText(s) == Len(s) >= 1 /\ \A i \in 1..Len(s) : IsDecDigit(s[i])

\* 0x followed by one or more base-16 digits
IsHexText(s) ==
    /\ Len(s) >= 3
    /\ s[1] = "0" /\ s[2] = "x"
    /\ \A i \in 3..Len(s) : IsHexDigit(s[i])

TryFromDone == pc = "num_done" /\ call.op = "try_from"

\* C7: a string normalises to a number only when it is a plain decimal digit
\* string or a 0x-prefixed hex digit string; every other string (a sign, an
\* underscore, scientific notation) fails with a conversion error
C7_OnlyDigitStrings ==
    (TryFromDone /\ call.value.variant = "String") =>
        IF IsDecText(call.value.s) \/ IsHexText(call.value.s)
        THEN TRUE
        ELSE ret.tag = "Err"

\* C8: the decimal text of n (in or beyond the 128-bit fast path), the 0x hex
\* text of n, the native 256-bit n and, below 2^64, the native 64-bit n all
\* normalise to n
C8_SameValue ==
    (TryFromDone /\ origin # << >>) =>
        /\ ret.tag = "Ok"
        /\ ret.val = origin[1]
        /\ Fits(ret.val, 256)

C8_Witness ==
    /\ TryFromDone
    /\ origin = <<Pow2(128)>>
    /\ call.value.variant = "String"
    /\ call.value.s[2] # "x"
    /\ Len(call.value.s) = 39
    /\ ret.tag = "Ok"

(* ------------------------------- Keccak-256 --------------------------- *)

\* A lane is the set of the positions 0..63 of its one bits; the sponge
\* state is the sequence of its 25 lanes, lane (x, y) at index x + 5y + 1.
LaneBits == 64

\* evaluate a sequence, a set, once and for all
Force(s) == s \o << >>

Bits(lane) == {k : k \in lane}

Xor(a, b) == (a \ b) \cup (b \ a)

\* rotate towards the high bits
Rotl(lane, r) == {(k + r) % LaneBits : k \in lane}

\* round constants of Keccak-f[1600], as lanes
RoundConstants ==
    << {0}, {1, 7, 15}, {1, 3, 7, 15, 63}, {15, 31, 63}, {0, 1, 3, 7, 15},
       {0, 31}, {0, 7, 15, 31, 63}, {0, 3, 15, 63}, {1, 3, 7}, {3, 7},
       {0, 3, 15, 31}, {1, 3, 31}, {0, 1, 3, 7, 15, 31}, {0, 1, 3, 7, 63},
       {0, 3, 7, 15, 63}, {0, 1, 15, 63}, {1, 15, 63}, {7, 63}, {1, 3, 15},
       {1, 3, 31, 63}, {0, 7, 15, 31, 63}, {7, 15, 63}, {0, 31},
       {3, 15, 31, 63} >>

\* rotation offsets, RhoOffsets[x + 1][y + 1]
RhoOffsets ==
    << <<0, 36, 3, 41, 18>>, <<1, 44, 10, 45, 2>>, <<62, 6, 43, 15, 61>>,
       <<28, 55, 25, 21, 56>>, <<27, 20, 39, 8, 14>> >>

\* one round: theta, rho and pi, chi, iota
KeccakRound(A, rc) ==
    LET C == Force([cx \in 1..5 |->
                Bits(Xor(Xor(Xor(Xor(A[cx], A[cx + 5]), A[cx + 10]),
                             A[cx + 15]), A[cx + 20]))])
        D == Force([cx \in 1..5 |->
                Bits(Xor(C[((cx + 3) % 5) + 1], Rotl(C[(cx % 5) + 1], 1)))])
        B == Force([j \in 1..25 |->
                LET bx == (j - 1) % 5
                    by == (j - 1) \div 5
                    sx == (bx + 3 * by) % 5
                    sy == bx
                IN  Rotl(Xor(A[sx + 5 * sy + 1], D[sx + 1]),
                         RhoOffsets[sx + 1][sy + 1])])
    IN  Force([j \in 1..25 |->
            LET row == 5 * ((j - 1) \div 5)
                j1  == row + (j % 5) + 1
                j2  == row + ((j + 1) % 5) + 1
                chi == Xor(B[j], B[j2] \ B[j1])
            IN  Bits(IF j = 1 THEN Xor(chi, rc) ELSE chi)])

RECURSIVE KeccakF(_, _)
KeccakF(A, round) ==
    IF round > Len(RoundConstants) THEN A
    ELSE LET next == KeccakRound(A, RoundConstants[round])
         IN  IF Len(next) = 25 THEN KeccakF(next, round + 1) ELSE << >>

\* bytes absorbed per block by the 256-bit instance
RateBytes == 136

RECURSIVE Pow2Nat(_)
Pow2Nat(k) == IF k = 0 THEN 1 ELSE 2 * Pow2Nat(k - 1)

\* bit b of a byte
BitOf(byte, b) == (byte \div Pow2Nat(b)) % 2

\* pad10*1 with the Keccak (pre-SHA-3) domain byte 0x01
KeccakPad(msg) ==
    LET fill == RateBytes - (Len(msg) % RateBytes)
    IN  IF fill = 1 THEN msg \o <<129>>
        ELSE msg \o <<1>> \o [i \in 1..(fill - 2) |-> 0] \o <<128>>

\* xor the block starting at byte offset off into the first 17 lanes, each
\* lane read from 8 bytes in little-endian order
Absorb(A, m, off) ==
    Force([j \in 1..25 |->
        IF j > RateBytes \div 8 THEN A[j]
        ELSE Bits(Xor(A[j],
                  {k \in 0..(LaneBits - 1) :
                      BitOf(m[off + 8 * (j - 1) + (k \div 8) + 1], k % 8) = 1}))])

RECURSIVE Sponge(_, _, _)
Sponge(A, m, off) ==
    IF off >= Len(m) THEN A
    ELSE LET next == KeccakF(Absorb(A, m, off), 1)
         IN  IF Len(next) = 25 THEN Sponge(next, m, off + RateBytes) ELSE << >>

ZeroState == Force([j \in 1..25 |-> {}])

RECURSIVE LaneByte(_, _, _)
LaneByte(lane, n, b) ==
    IF b = 8 THEN 0
    ELSE (IF 8 * n + b \in lane THEN Pow2Nat(b) ELSE 0) + LaneByte(lane, n, b + 1)

\* keccak256: the first 32 bytes of the state after absorbing the message
keccak256(bytes) ==
    LET A == Sponge(ZeroState, KeccakPad(bytes), 0)
    IN  Force([i \in 1..32 |-> LaneByte(A[((i - 1) \div 8) + 1], (i - 1) % 8, 0)])

(* ------------------------------ selector ------------------------------ *)

\* the ASCII code of a character of a signature
Ascii(c) ==
    IF IndexIn(DecDigits, c) > 0 THEN 47 + IndexIn(DecDigits, c)
    ELSE IF IndexIn(LowerLetters, c) > 0 THEN 96 + IndexIn(LowerLetters, c)
    ELSE IF IndexIn(UpperLetters, c) > 0 THEN 64 + IndexIn(UpperLetters, c)
    ELSE IF c = "(" THEN 40
    ELSE IF c = ")" THEN 41
    ELSE IF c = "," THEN 44
    ELSE IF c = "_" THEN 95
    ELSE 36

\* str::as_bytes
as_bytes(s) == [i \in 1..Len(s) |-> Ascii(s[i])]

\* utils::selector: the first four bytes of the Keccak-256 digest
selector(signature) == SubSeq(keccak256(as_bytes(signature)), 1, 4)

RECURSIVE JoinTypes(_, _)
JoinTypes(params, i) ==
    IF i > Len(params) THEN << >>
    ELSE (IF i > 1 THEN <<",">> ELSE << >>) \o params[i] \o JoinTypes(params, i + 1)

\* ExpCtxt::error_signature: name(type1,type2,...)
error_signature(error) ==
    error.name \o <<"(">> \o JoinTypes(error.parameters, 1) \o <<")">>

\* Option<bool>: << >> is None, <<b>> is Some(b)
OptionBool == {<< >>, <<TRUE>>, <<FALSE>>}

\* the abi attribute is either absent or switched on
AbiAttrs == {<< >>, <<TRUE>>}

OptOr(a, b) == IF a # << >> THEN a ELSE b

UnwrapOr(a, default) == IF a # << >> THEN a[1] ELSE default

\* hex::encode_prefixed
encode_prefixed(bytes) == <<"0", "x">> \o hex_encode(bytes)

\* text set in backquotes; a fenced solidity code block
Backquoted(text) == [backquoted |-> text]

Fenced(item) == [solidity |-> item]

\* the doc attribute: the text around signature, selector and declaration
mk_doc(signature, selector_text, error) ==
    << "Custom error with signature ", Backquoted(signature), " and selector ",
       Backquoted(selector_text), ".\n", Fenced(error) >>

\* the tokens expand() emits for a resolved declaration
Tokens(error, signature, sel, doc_sel, docs, abi) ==
    [ name      |-> error.name,
      fields    |-> error.parameters,
      doc       |-> IF docs
                    THEN <<mk_doc(signature, encode_prefixed(doc_sel), error)>>
                    ELSE << >>,
      SIGNATURE |-> signature,
      SELECTOR  |-> sel,
      json_abi  |-> abi ]

\* mutant of expand: the selector is taken of the bare name
expand_name_selector(cx, error, sol_attrs) ==
    IF ~error.resolved THEN [tag |-> "Err", kind |-> "syn::Error"]
    ELSE IF ~error.attrs_valid THEN [tag |-> "Err", kind |-> "syn::Error"]
    ELSE LET docs      == UnwrapOr(OptOr(sol_attrs.docs, cx.docs), TRUE)
             abi       == UnwrapOr(OptOr(sol_attrs.abi, cx.abi), FALSE)
             signature == error_signature(error)
             sel       == selector(error.name)
         IN  Ok(Tokens(error, signature, sel, sel, docs, abi))

\* expand(cx, error): cx.assert_resolved(params)? and SolAttrs::parse(attrs)?
\* return early; sol_attrs are the attributes parsed off the declaration
expand(cx, error, sol_attrs) ==
    IF ~error.resolved THEN [tag |-> "Err", kind |-> "syn::Error"]
    ELSE IF ~error.attrs_valid THEN [tag |-> "Err", kind |-> "syn::Error"]
    ELSE LET docs      == UnwrapOr(OptOr(sol_attrs.docs, cx.docs), TRUE)
             abi       == UnwrapOr(OptOr(sol_attrs.abi, cx.abi), FALSE)
             signature == error_signature(error)
             sel       == selector(signature)
         IN  Ok(Tokens(error, signature, sel, sel, docs, abi))

TypeNames == {<<"a", "d", "d", "r", "e", "s", "s">>, <<"u", "i", "n", "t", "2", "5", "6">>}

ErrorNames ==
    { <<"t", "r", "a", "n", "s", "f", "e", "r">>,
      <<"U", "n", "a", "u", "t", "h", "o", "r", "i", "z", "e", "d">> }

RECURSIVE ParamLists(_)
ParamLists(k) ==
    IF k = 0 THEN {<< >>}
    ELSE LET prev == ParamLists(k - 1)
         IN  prev \cup {ps \o <<t>> : ps \in prev, t \in TypeNames}

\* the expansion context carries the attributes of the enclosing invocation
InitSel ==
    /\ pc = "sel_start"
    /\ checks = TRUE
    /\ word = ZeroWord
    /\ origin = << >>
    /\ \E cx_docs \in OptionBool, cx_abi \in AbiAttrs :
          call = [op |-> "none", cx |-> [docs |-> cx_docs, abi |-> cx_abi]]
    /\ ret = NoRet

Expand ==
    /\ pc = "sel_start"
    /\ \E name \in ErrorNames, parameters \in ParamLists(MaxParams),
          resolved \in BOOLEAN, attrs_valid \in BOOLEAN,
          item_docs \in OptionBool, item_abi \in AbiAttrs :
          LET error     == [name |-> name, parameters |-> parameters,
                            resolved |-> resolved, attrs_valid |-> attrs_valid]
              sol_attrs == [docs |-> item_docs, abi |-> item_abi]
          IN  /\ call' = [op |-> "expand", cx |-> call.cx, error |-> error,
                          sol_attrs |-> sol_attrs]
              /\ ret' = expand(call.cx, error, sol_attrs)
    /\ pc' = "sel_done"
    /\ UNCHANGED <<checks, word, origin>>

NextSel == Expand

SpecSel == InitSel /\ [][NextSel]_vars

TRANSFER_SIGNATURE ==
    <<"t", "r", "a", "n", "s", "f", "e", "r", "(", "a", "d", "d", "r", "e", "s", "s", ",">>
        \o <<"u", "i", "n", "t", "2", "5", "6", ")">>

\* C9: the emitted SELECTOR is the first four bytes of the Keccak-256 digest
\* of the bytes of the emitted SIGNATURE, the generated doc shows that same
\* selector (0x-prefixed hex) beside that same signature, and the selector
\* of transfer(address,uint256) is a9059cbb
C9_SelectorOfSignature ==
    (pc = "sel_done" /\ ret.tag = "Ok") =>
        LET digest == keccak256(as_bytes(ret.val.SIGNATURE))
        IN  /\ Len(digest) = 32
            /\ \A i \in 1..32 : digest[i] \in 0..255
            /\ ret.val.SELECTOR = <<digest[1], digest[2], digest[3], digest[4]>>
            /\ ret.val.SIGNATURE = error_signature(call.error)
            /\ ret.val.doc # << >> =>
                  /\ ret.val.doc[1][2].backquoted = ret.val.SIGNATURE
                  /\ LET shown == ret.val.doc[1][4].backquoted
                     IN  /\ Len(shown) = 10
                         /\ SubSeq(shown, 1, 2) = <<"0", "x">>
                         /\ \A i \in 1..4 :
                               16 * HexDigitValue(shown[2 * i + 1])
                                   + HexDigitValue(shown[2 * i + 2]) = digest[i]
            /\ ret.val.SIGNATURE = TRANSFER_SIGNATURE
                  => ret.val.SELECTOR = <<169, 5, 156, 187>>

C9_Witness ==
    /\ pc = "sel_done" /\ ret.tag = "Ok"
    /\ ret.val.SIGNATURE = TRANSFER_SIGNATURE
    /\ ret.val.SELECTOR = <<169, 5, 156, 187>>
    /\ ret.val.doc # << >>
    /\ call.sol_attrs.docs = << >> /\ call.cx.docs = << >>

====
